---- MODULE Spec2Model ----
(***************************************************************************)
(* Model of notebooks/classification_loss_training.py: the date split of   *)
(* the annotations, the two training phases with their freezing and the    *)
(* shared best-only checkpoint, and the k-shot / n-way evaluation loop     *)
(* with its scoring.                                                        *)
(*                                                                          *)
(* A data frame is a sequence of rows; each row carries its index label    *)
(* (pandas keeps the label through filtering and sampling).  A string is a *)
(* sequence of one-character strings, so that slicing and concatenation    *)
(* are computed.  pandas and numpy count from 0, sequences from 1: the     *)
(* row with positional index p is element p + 1.                           *)
(***************************************************************************)
EXTENDS Integers, Sequences, FiniteSets, Bags, TLC

VARIABLES
    pc,               \* the statement the script executes next
    csv,              \* rows of data/annotations/cropped_images.csv
    split_yaml,       \* content of cropped_images_split.yaml
    all_annotations,  \* line 33
    train_set,        \* line 41
    val_set,          \* line 42
    test_set,         \* line 43
    branch_depth,     \* line 78
    branch_trainable, \* siamese_nets.get_layer('branch_model').trainable
    layer_trainable,  \* trainable of each layer of the branch model, from layer 0
    head_trainable,   \* siamese_nets.get_layer('head_model').trainable
    compiled,         \* what the last compile fixed: trainable layers, optimizer
    epoch,            \* the epoch fit_generator runs next
    best,             \* ModelCheckpoint.best
    weights,          \* the weights of trainable_model
    ckpt_file,        \* classification_loss_best_weights.h5
    logged,           \* the epochs whose end the callbacks have seen, in order
    loaded,           \* the weights load_weights has read, in order
    embeddings,       \* line 156 (line 84's symbolic tensor is never read again)
    test_sequence,    \* lines 155 and 175
    episode,          \* the loop variable _ of line 159
    scores,           \* line 158: the number of rows, and the last row appended
    selected_labels,  \* line 160, as the bag of the n_way draws
    support_set,      \* line 161
    query_set,        \* line 168
    score,            \* the column predict_generator returns at line 183
    ranked,           \* the group sorted last inside the applied function
    group_results,    \* the rows groupby.apply has collected, one per query done
    scores_csv,       \* scores.csv: absent, or its number of rows
    csv_writes        \* how many times scores.csv has been written

dataVars == <<csv, split_yaml, all_annotations, train_set, val_set, test_set>>
modelVars == <<branch_depth, branch_trainable, layer_trainable, head_trainable, compiled>>
trainVars == <<epoch, best, weights, ckpt_file, logged, loaded>>
evalVars == <<embeddings, test_sequence, episode, scores, selected_labels, support_set,
              query_set, score, ranked, group_results, scores_csv, csv_writes>>
vars == <<pc, dataVars, modelVars, trainVars, evalVars>>

-----------------------------------------------------------------------------
(* Bounds of the model *)

\* rows of the csv file drawn by the split specification
MaxRows == 3
\* layers of the branch model
MaxDepth == 5
\* validation losses are 1 .. MaxLoss, or NaN
MaxLoss == 2
\* the head model scores a pair 1 .. MaxScore
MaxScore == 2
\* test rows of one label, in the specifications of one episode
MaxGroup == 4
\* queries of the episodes whose scoring is checked
MaxQueries == 2

-----------------------------------------------------------------------------
(* Strings *)

Min(a, b) == IF a < b THEN a ELSE b
Max(a, b) == IF a < b THEN b ELSE a

\* pandas Series.str.slice(start, stop): characters start .. stop - 1, counted
\* from 0, cut at the end of the string
StrSlice(s, start, stop) ==
    LET last == Min(stop, Len(s))
    IN  IF start >= last THEN <<>> ELSE SubSeq(s, start + 1, last)

\* line 36: the bounds of the day inside image_name
day_start == 3
day_stop == 11

\* line 37: 'data/images/cropped_images/'
images_dir ==
    <<"d","a","t","a","/","i","m","a","g","e","s","/","c","r","o","p","p","e","d",
      "_","i","m","a","g","e","s","/">>

-----------------------------------------------------------------------------
(* Lines 33-43: the annotations and their split by date *)

\* lines 35-38: DataFrame.assign evaluates its keyword arguments in order, each
\* on the frame produced so far: day is cut out of the image_name of the csv,
\* and image_name is prefixed afterwards.  read_csv gives a RangeIndex.
AssignDay(df) ==
    [i \in 1..Len(df) |->
        [index |-> df[i].index, image_name |-> df[i].image_name, label |-> df[i].label,
         day |-> StrSlice(df[i].image_name, day_start, day_stop)]]

AssignImageName(df) ==
    [i \in 1..Len(df) |-> [df[i] EXCEPT !.image_name = images_dir \o @]]

ReadCsv(file) ==
    [i \in 1..Len(file) |->
        [index |-> i - 1, image_name |-> file[i].image_name, label |-> file[i].label]]

\* the two assignments in the other order: day cut out of the prefixed name
AllAnnotations_DayOfPrefixed(file) == AssignDay(AssignImageName(ReadCsv(file)))

AllAnnotations(file) == AssignImageName(AssignDay(ReadCsv(file)))

\* df.loc[lambda df: df.day.isin(dates)]: the rows whose day is one of dates,
\* in order, each with its index label
DayIsIn(df, dates) ==
    LET keep(row) == row.day \in dates
    IN  SelectSeq(df, keep)

\* reset_index(drop=True): the index labels become 0 .. N - 1
ResetIndex(df) ==
    [i \in 1..Len(df) |->
        [index |-> i - 1, image_name |-> df[i].image_name, label |-> df[i].label,
         day |-> df[i].day]]

TrainSet(df, yaml) == DayIsIn(df, yaml.train_set_dates)
ValSet(df, yaml) == DayIsIn(df, yaml.val_set_dates)
\* test_set filtered like train_set and val_set, without reset_index
TestSet_NoReset(df, yaml) == DayIsIn(df, yaml.test_set_dates)

TestSet(df, yaml) == ResetIndex(DayIsIn(df, yaml.test_set_dates))

InitData ==
    /\ pc' = "init_model"
    /\ all_annotations' = AllAnnotations(csv)
    /\ train_set' = TrainSet(AllAnnotations(csv), split_yaml)
    /\ val_set' = ValSet(AllAnnotations(csv), split_yaml)
    /\ test_set' = TestSet(AllAnnotations(csv), split_yaml)
    /\ UNCHANGED <<csv, split_yaml, modelVars, trainVars, evalVars>>

-----------------------------------------------------------------------------
(* Lines 45-119: the model, the callbacks, the training sequences *)

\* a validation loss: a number, or NaN; ModelCheckpoint.best starts at infinity
Num(n) == <<"num", n>>
NaN == <<"nan">>
Inf == <<"inf">>
LossVals == {Num(n) : n \in 1..MaxLoss} \cup {NaN}

\* weights are told apart by the validation loss measured on them
Pretrained == [val_loss |-> <<"not evaluated">>]
NoFile == [val_loss |-> <<"no file">>]
NotCompiled == [branch_layers |-> {}, head |-> FALSE, lr |-> "none"]

\* lines 61-99: a new Keras layer is trainable; ModelCheckpoint is built once,
\* with best = infinity (min mode for val_loss)
InitModel ==
    /\ pc' = "phase1_compile"
    /\ \E depth \in 1..MaxDepth :
        /\ branch_depth' = depth
        /\ layer_trainable' = [i \in 1..depth |-> TRUE]
    /\ branch_trainable' = TRUE
    /\ head_trainable' = TRUE
    /\ best' = Inf
    /\ ckpt_file' = NoFile
    /\ weights' = Pretrained
    /\ UNCHANGED <<dataVars, compiled, epoch, logged, loaded, evalVars>>

-----------------------------------------------------------------------------
(* Lines 121-149: the two training phases *)

\* lines 128-129, 144-145
initial_epoch_1 == 0
epochs_1 == 20
initial_epoch_2 == 20
epochs_2 == 70

\* Model.trainable = value: tf.keras sets the attribute on the model and on each
\* of its layers
SetTrainable(flags, value) == [i \in 1..Len(flags) |-> value]

\* the layers of the branch model whose weights an optimizer step updates
\* (layer number i, from 0, is element i + 1)
TrainableLayers(model_flag, flags) ==
    {i \in 0..(Len(flags) - 1) : model_flag /\ flags[i + 1]}

\* Model.compile collects the trainable weights of the branch and of the head
Compile(model_flag, flags, head_flag, lr) ==
    [branch_layers |-> TrainableLayers(model_flag, flags), head |-> head_flag, lr |-> lr]

\* lines 121-123
Phase1Compile ==
    /\ pc' = "phase1_fit"
    /\ branch_trainable' = FALSE
    /\ layer_trainable' = SetTrainable(layer_trainable, FALSE)
    /\ compiled' = Compile(FALSE, SetTrainable(layer_trainable, FALSE), head_trainable, "1e-4")
    /\ epoch' = initial_epoch_1
    /\ UNCHANGED <<dataVars, branch_depth, head_trainable, best, weights, ckpt_file,
                   logged, loaded, evalVars>>

\* save_best_only left out: every epoch with a loss is saved
Less_SaveAlways(current, old) == current # NaN

\* np.less(current, self.best): false when current is NaN
Less(current, old) ==
    /\ current # NaN
    /\ \/ old = Inf
       \/ old # Inf /\ current[2] < old[2]

\* ModelCheckpoint.on_epoch_end with save_best_only: the state of the callback
\* after an epoch whose validation loss is current, weights new
CheckpointBest(current, old) == IF Less(current, old) THEN current ELSE old
CheckpointFile(current, old, new, file) == IF Less(current, old) THEN new ELSE file

\* one epoch of fit_generator (lines 124-132 and 140-148): train, validate, then
\* the callbacks; after epoch epochs - 1 the call returns
FitEpoch(epochs, next_pc) ==
    /\ epoch < epochs
    /\ \E val_loss \in LossVals :
        /\ weights' = [val_loss |-> val_loss]
        /\ best' = CheckpointBest(val_loss, best)
        /\ ckpt_file' = CheckpointFile(val_loss, best, [val_loss |-> val_loss], ckpt_file)
    /\ logged' = Append(logged, epoch)
    /\ epoch' = epoch + 1
    /\ pc' = IF epoch + 1 < epochs THEN pc ELSE next_pc
    /\ UNCHANGED <<dataVars, modelVars, loaded, evalVars>>

Phase1Fit == FitEpoch(epochs_1, "phase1_load")

\* lines 133 and 149: load_weights raises when the checkpoint was never written
LoadWeights(next_pc) ==
    /\ IF ckpt_file = NoFile
       THEN /\ pc' = "aborted"
            /\ UNCHANGED <<weights, loaded>>
       ELSE /\ pc' = next_pc
            /\ weights' = ckpt_file
            /\ loaded' = Append(loaded, ckpt_file)
    /\ UNCHANGED <<dataVars, modelVars, epoch, best, ckpt_file, logged, evalVars>>

Phase1Load == LoadWeights("phase2_unfreeze")

\* line 135
Phase2Unfreeze ==
    /\ pc' = "phase2_freeze"
    /\ branch_trainable' = TRUE
    /\ layer_trainable' = SetTrainable(layer_trainable, TRUE)
    /\ UNCHANGED <<dataVars, branch_depth, head_trainable, compiled, trainVars, evalVars>>

\* the bound rounded up instead of truncated
FrozenCount_RoundUp(depth) == (depth * 6 + 9) \div 10

\* int(branch_depth * 0.6): the product is a double and int() truncates it.  For
\* a depth that is a multiple of 5 the double nearest to depth * 0.6 is the
\* integer itself, so the result is the integer part of 6 * depth / 10.
FrozenCount(depth) == (depth * 6) \div 10

\* lines 136-137: layers[:n] are the layers 0 .. n - 1
FreezeLayers(flags, n) == [i \in 1..Len(flags) |-> IF i - 1 < n THEN FALSE ELSE flags[i]]

Phase2Freeze ==
    /\ pc' = "phase2_compile"
    /\ layer_trainable' = FreezeLayers(layer_trainable, FrozenCount(branch_depth))
    /\ UNCHANGED <<dataVars, branch_depth, branch_trainable, head_trainable, compiled,
                   trainVars, evalVars>>

\* lines 138-139
Phase2Compile ==
    /\ pc' = "phase2_fit"
    /\ compiled' = Compile(branch_trainable, layer_trainable, head_trainable, "1e-5")
    /\ epoch' = initial_epoch_2
    /\ UNCHANGED <<dataVars, branch_depth, branch_trainable, layer_trainable,
                   head_trainable, best, weights, ckpt_file, logged, loaded, evalVars>>

Phase2Fit == FitEpoch(epochs_2, "phase2_load")

Phase2Load == LoadWeights("eval_init")

-----------------------------------------------------------------------------
(* Rational numbers <<numerator, denominator>> in lowest terms; <<0, 0>> is   *)
(* NaN.  The scores are means of means, kept exact.                           *)

RECURSIVE GCD(_, _)
GCD(a, b) == IF b = 0 THEN a ELSE GCD(b, a % b)

RNaN == <<0, 0>>
Rat(n, d) == IF d = 0 THEN RNaN ELSE <<n \div GCD(n, d), d \div GCD(n, d)>>
RAdd(x, y) == Rat(x[1] * y[2] + y[1] * x[2], x[2] * y[2])
RDiv(x, n) == Rat(x[1], x[2] * n)

RECURSIVE RSum(_)
RSum(xs) == IF xs = <<>> THEN Rat(0, 1) ELSE RAdd(Head(xs), RSum(Tail(xs)))

\* Series.mean(): NaN entries are skipped; the mean of nothing is NaN
RMean(xs) ==
    LET notnan(x) == x # RNaN
        kept == SelectSeq(xs, notnan)
    IN  IF kept = <<>> THEN RNaN ELSE RDiv(RSum(kept), Len(kept))

-----------------------------------------------------------------------------
(* Lines 151-180: the embeddings of the test set and the sampling of one      *)
(* episode                                                                    *)

\* lines 152-154
k_shot == 3
n_way == 10
n_episode == 50
\* line 155
test_batch_size == 16

\* the labels in the order groupby sorts its keys
LabelOrder == <<"a", "b", "c", "d", "e", "f", "g", "h", "i", "j">>

\* the output of the branch model for an image is told by the image
Embedding(image_name) == <<"embedding of", image_name>>

\* keras_fsl.sequences.training.single.DeterministicSequence: batch number b
\* (from 0) holds the rows b * batch_size .. (b + 1) * batch_size - 1, in order,
\* and there are ceil(N / batch_size) batches
DeterministicSequence(df, batch_size) ==
    [b \in 1..((Len(df) + batch_size - 1) \div batch_size) |->
        SubSeq(df, (b - 1) * batch_size + 1, Min(b * batch_size, Len(df)))]

RECURSIVE Concat(_)
Concat(seqs) == IF seqs = <<>> THEN <<>> ELSE Head(seqs) \o Concat(Tail(seqs))

\* predict_generator: the outputs of the batches, in order, one after another
PredictGenerator(batches) ==
    Concat([b \in 1..Len(batches) |->
                [i \in 1..Len(batches[b]) |-> Embedding(batches[b][i].image_name)]])

NoSequence == [kind |-> "none"]
NoRow == [score |-> RNaN, average_precision |-> RNaN, good_prediction |-> RNaN]

\* lines 152-158
EvalInit ==
    /\ pc' = IF n_episode > 0 THEN "choice" ELSE "write"
    /\ test_sequence' = [kind |-> "deterministic",
                         batches |-> DeterministicSequence(test_set, test_batch_size)]
    /\ embeddings' = PredictGenerator(DeterministicSequence(test_set, test_batch_size))
    /\ scores' = [len |-> 0, last |-> NoRow]
    /\ episode' = 0
    /\ UNCHANGED <<dataVars, modelVars, trainVars, selected_labels, support_set,
                   query_set, score, ranked, group_results, scores_csv, csv_writes>>

\* test_set.label.unique()
Unique(df) == {df[i].label : i \in 1..Len(df)}

\* the bag with n copies of x
Copies(x, n) == [e \in (IF n = 0 THEN {} ELSE {x}) |-> n]

RECURSIVE ChoiceWithReplacement(_, _)
\* np.random.choice(a, size=size, replace=True): size independent draws from a.
\* The draws are kept as a bag (how often each element was drawn), since the
\* array is only read through isin.
ChoiceWithReplacement(a, size) ==
    IF a = {} THEN (IF size = 0 THEN {EmptyBag} ELSE {})
    ELSE LET x == CHOOSE y \in a : TRUE
         IN  UNION {{Copies(x, n) (+) rest :
                        rest \in ChoiceWithReplacement(a \ {x}, size - n)} :
                     n \in 0..size}

\* half of the labels: n draws from a set are some draws from one part of it
\* and the other draws from the rest, which keeps the sets enumerated small
LowLabels == {LabelOrder[i] : i \in 1..(Len(LabelOrder) \div 2)}

\* line 160; choice raises on an empty population.  support_set, query_set,
\* test_sequence and the frame being scored still hold the previous episode's
\* values here; each is assigned again before it is next read, so the model
\* forgets them at this point.
Choice ==
    /\ IF Unique(test_set) = {}
       THEN /\ pc' = "aborted"
            /\ UNCHANGED selected_labels
       ELSE /\ pc' = "support"
            /\ \E low \in 0..n_way :
                \E x \in ChoiceWithReplacement(Unique(test_set) \cap LowLabels, low),
                   y \in ChoiceWithReplacement(Unique(test_set) \ LowLabels, n_way - low) :
                    selected_labels' = x (+) y
    /\ support_set' = <<>>
    /\ query_set' = <<>>
    /\ test_sequence' = NoSequence
    /\ score' = <<>>
    /\ ranked' = <<>>
    /\ group_results' = <<>>
    /\ UNCHANGED <<dataVars, modelVars, trainVars, embeddings, episode, scores,
                   scores_csv, csv_writes>>

\* df.loc[lambda df: df.label.isin(selected)]
LabelIsIn(df, selected) ==
    LET keep(row) == row.label \in BagToSet(selected)
    IN  SelectSeq(df, keep)

Group(df, label) ==
    LET keep(row) == row.label = label
    IN  SelectSeq(df, keep)

RECURSIVE Rows(_, _, _)
\* the rows of df at the positions of S, in order
Rows(df, S, i) ==
    IF i > Len(df) THEN <<>>
    ELSE IF i \in S THEN <<df[i]>> \o Rows(df, S, i + 1) ELSE Rows(df, S, i + 1)

\* a sample that takes the whole group when it has fewer than k rows
Sample_AtMost(group, k) ==
    {Rows(group, S, 1) :
        S \in {T \in SUBSET (1..Len(group)) : Cardinality(T) = Min(k, Len(group))}}

\* group.sample(k): k different rows of the group, each with its index label;
\* no outcome when the group has fewer than k rows (sample raises ValueError).
\* The order of the sampled rows is not kept: nothing below depends on it.
Sample(group, k) ==
    {Rows(group, S, 1) : S \in {T \in SUBSET (1..Len(group)) : Cardinality(T) = k}}

RECURSIVE GroupbyApplySample(_, _, _)
\* groupby('label').apply(lambda group: group.sample(k)): one sample of each
\* group, the groups in the order of their keys; no outcome when a sample raises
GroupbyApplySample(df, keys, k) ==
    IF keys = <<>> THEN {<<>>}
    ELSE IF Group(df, Head(keys)) = <<>> THEN GroupbyApplySample(df, Tail(keys), k)
    ELSE {s \o rest : s \in Sample(Group(df, Head(keys)), k),
                      rest \in GroupbyApplySample(df, Tail(keys), k)}

\* lines 161-167.  reset_index('label', drop=True) drops the group key that apply
\* put in front of the index, which leaves the index labels of test_set.  When
\* every sample has the very index of its group (each group has exactly k rows
\* and is drawn in its own order), pandas before 2.0 adds no group key and
\* reset_index raises KeyError: an outcome without rows.
SupportSets(df, selected, k) ==
    LET rows == LabelIsIn(df, selected)
        samples == GroupbyApplySample(rows, LabelOrder, k)
        all_exact == \A l \in BagToSet(selected) : Len(Group(rows, l)) = k
    IN  {[raised |-> FALSE, rows |-> s] : s \in samples}
        \cup (IF all_exact THEN {[raised |-> TRUE, rows |-> <<>>]} ELSE {})

Support ==
    /\ IF SupportSets(test_set, selected_labels, k_shot) = {}
       THEN /\ pc' = "aborted"
            /\ UNCHANGED support_set
       ELSE \E outcome \in SupportSets(test_set, selected_labels, k_shot) :
            /\ pc' = IF outcome.raised THEN "aborted" ELSE "query"
            /\ support_set' = IF outcome.raised THEN support_set ELSE outcome.rows
    /\ UNCHANGED <<dataVars, modelVars, trainVars, embeddings, test_sequence, episode,
                   scores, selected_labels, query_set, score, ranked, group_results, scores_csv,
                   csv_writes>>

Index(df) == [i \in 1..Len(df) |-> df[i].index]
Range(seq) == {seq[i] : i \in 1..Len(seq)}

\* the query set without the second filter
QuerySet_KeepSupport(df, selected, support) == LabelIsIn(df, selected)

\* lines 168-172
QuerySet(df, selected, support) ==
    LET keep(row) == row.index \notin Range(Index(support))
    IN  SelectSeq(LabelIsIn(df, selected), keep)

Query ==
    /\ pc' = "pairs"
    /\ query_set' = QuerySet(test_set, selected_labels, support_set)
    /\ UNCHANGED <<dataVars, modelVars, trainVars, embeddings, test_sequence, episode,
                   scores, selected_labels, support_set, score, ranked, group_results,
                   scores_csv, csv_writes>>

\* embeddings[index]: numpy takes the rows at the positions index, from 0
Take(array, index) == [i \in 1..Len(index) |-> array[index[i] + 1]]

LabelValues(df) == [i \in 1..Len(df) |-> df[i].label]

\* keras_fsl.sequences.prediction.pairs.ProductSequence: every query paired with
\* every support item; query_index and support_index are positions in the two
\* arrays, target tells whether the two labels are the same
ProductSequence(support_images_array, query_images_array, support_labels, query_labels) ==
    [kind |-> "product",
     support_images_array |-> support_images_array,
     query_images_array |-> query_images_array,
     pairs_indexes |->
        [p \in 1..(Len(query_labels) * Len(support_labels)) |->
            LET q == (p - 1) \div Len(support_labels)
                s == (p - 1) % Len(support_labels)
            IN  [query_index |-> q, support_index |-> s,
                 target |-> query_labels[q + 1] = support_labels[s + 1]]]]

\* lines 173-180; an index label past the end of embeddings raises IndexError
Pairs ==
    /\ IF \E i \in Range(Index(support_set)) \cup Range(Index(query_set)) :
             i + 1 > Len(embeddings)
       THEN /\ pc' = "aborted"
            /\ UNCHANGED test_sequence
       ELSE /\ pc' = "predict"
            /\ test_sequence' =
                   ProductSequence(Take(embeddings, Index(support_set)),
                                   Take(embeddings, Index(query_set)),
                                   LabelValues(support_set), LabelValues(query_set))
    /\ UNCHANGED <<dataVars, modelVars, trainVars, embeddings, episode, scores,
                   selected_labels, support_set, query_set, score, ranked, group_results,
                   scores_csv, csv_writes>>

-----------------------------------------------------------------------------
(* Lines 181-199: the scores of an episode, and scores.csv *)

ScoreVals == 1..MaxScore

\* predict_generator over the pairs: one score per pair.  With no pair (an
\* empty query set) there is no batch to predict on: the call may raise.
PredictOutcomes(pairs) ==
    {[raised |-> FALSE, score |-> sc] : sc \in [1..Len(pairs) -> ScoreVals]}
    \cup (IF Len(pairs) = 0 THEN {[raised |-> TRUE, score |-> <<>>]} ELSE {})

NumQueries(pairs) == Cardinality({pairs[p].query_index : p \in 1..Len(pairs)})

\* line 183
Predict ==
    /\ \E outcome \in PredictOutcomes(test_sequence.pairs_indexes) :
        /\ score' = outcome.score
        /\ pc' = IF outcome.raised THEN "aborted"
                 ELSE IF NumQueries(test_sequence.pairs_indexes) = 0 THEN "append"
                 ELSE "apply"
    /\ UNCHANGED <<dataVars, modelVars, trainVars, embeddings, test_sequence, episode,
                   scores, selected_labels, support_set, query_set, ranked, group_results,
                   scores_csv, csv_writes>>

\* pairs_indexes.assign(score=...), then the group of one query_index
AssignScore(pairs, sc) ==
    [p \in 1..Len(pairs) |->
        [query_index |-> pairs[p].query_index, support_index |-> pairs[p].support_index,
         target |-> pairs[p].target, score |-> sc[p]]]

QueryGroup(df, q) ==
    LET keep(row) == row.query_index = q
    IN  SelectSeq(df, keep)

\* the rows at positions S of group that may come first when sorted by
\* descending score: a row of the highest score, and among the rows of that
\* score with the same target the first one (rows of equal score and equal
\* target are told apart by nothing that is read after the sort)
First(group, S) ==
    {j \in S : /\ \A k \in S : group[k].score <= group[j].score
               /\ \A k \in S : (/\ group[k].score = group[j].score
                                 /\ group[k].target = group[j].target) => j <= k}

RECURSIVE Descending(_, _)
Descending(group, S) ==
    IF S = {} THEN {<<>>}
    ELSE UNION {{<<group[i]>> \o rest : rest \in Descending(group, S \ {i})} :
                    i \in First(group, S)}

Reverse(seq) == [i \in 1..Len(seq) |-> seq[Len(seq) + 1 - i]]

\* sort_values('score') with the default ascending=True
SortValues_Ascending(group) ==
    {Reverse(sorted) : sorted \in Descending(group, 1..Len(group))}

\* sort_values('score', ascending=False): quicksort, which leaves the order of
\* rows of equal score open
SortValues(group) == Descending(group, 1..Len(group))

BoolToInt(b) == IF b THEN 1 ELSE 0

RECURSIVE CumSum(_, _)
CumSum(df, i) == IF i = 0 THEN 0 ELSE BoolToInt(df[i].target) + CumSum(df, i - 1)

\* target.expanding().mean(): at each row, the mean of target from the first row
\* to this one
ExpandingMean(df) == [i \in 1..Len(df) |-> Rat(CumSum(df, i), i)]

\* good_prediction read from the last row of the sorted group
ApplyGroup_LastRow(sorted) ==
    LET assigned ==
            [i \in 1..Len(sorted) |->
                [target |-> sorted[i].target,
                 score |-> Rat(sorted[i].score, 1),
                 average_precision |-> ExpandingMean(sorted)[i],
                 good_prediction |-> Rat(BoolToInt(sorted[Len(sorted)].target), 1)]]
        istarget(row) == row.target
        kept == SelectSeq(assigned, istarget)
    IN  [score |-> RMean([i \in 1..Len(kept) |-> kept[i].score]),
         average_precision |-> RMean([i \in 1..Len(kept) |-> kept[i].average_precision]),
         good_prediction |-> RMean([i \in 1..Len(kept) |-> kept[i].good_prediction])]

\* lines 186-193: the function applied to the group of one query
ApplyGroup(sorted) ==
    LET assigned ==
            [i \in 1..Len(sorted) |->
                [target |-> sorted[i].target,
                 score |-> Rat(sorted[i].score, 1),
                 average_precision |-> ExpandingMean(sorted)[i],
                 good_prediction |-> Rat(BoolToInt(sorted[1].target), 1)]]
        istarget(row) == row.target
        kept == SelectSeq(assigned, istarget)
    IN  [score |-> RMean([i \in 1..Len(kept) |-> kept[i].score]),
         average_precision |-> RMean([i \in 1..Len(kept) |-> kept[i].average_precision]),
         good_prediction |-> RMean([i \in 1..Len(kept) |-> kept[i].good_prediction])]

\* lines 184-194: groupby('query_index').apply, one group at a time from query 0
Apply ==
    /\ LET df == AssignScore(test_sequence.pairs_indexes, score)
           q == Len(group_results)
       IN  /\ \E sorted \in SortValues(QueryGroup(df, q)) :
                /\ ranked' = sorted
                /\ group_results' = Append(group_results, ApplyGroup(sorted))
           /\ pc' = IF q + 1 < NumQueries(df) THEN "apply" ELSE "append"
    /\ UNCHANGED <<dataVars, modelVars, trainVars, embeddings, test_sequence, episode,
                   scores, selected_labels, support_set, query_set, score, scores_csv,
                   csv_writes>>

\* line 195: the mean of every column over the queries
AggMean(rows) ==
    [score |-> RMean([i \in 1..Len(rows) |-> rows[i].score]),
     average_precision |-> RMean([i \in 1..Len(rows) |-> rows[i].average_precision]),
     good_prediction |-> RMean([i \in 1..Len(rows) |-> rows[i].good_prediction])]

\* to_csv moved into the loop: the scores are written after every episode
AppendScores_WriteEachEpisode ==
    /\ scores' = [len |-> scores.len + 1, last |-> AggMean(group_results)]
    /\ episode' = episode + 1
    /\ pc' = "write"
    /\ UNCHANGED <<dataVars, modelVars, trainVars, embeddings, test_sequence,
                   selected_labels, support_set, query_set, score, ranked, group_results,
                   scores_csv, csv_writes>>

\* lines 181 and 196, and the loop of line 159.  Of the list scores the model
\* keeps the length and the row appended last.
AppendScores ==
    /\ scores' = [len |-> scores.len + 1, last |-> AggMean(group_results)]
    /\ episode' = episode + 1
    /\ pc' = IF episode + 1 < n_episode THEN "choice" ELSE "write"
    /\ UNCHANGED <<dataVars, modelVars, trainVars, embeddings, test_sequence,
                   selected_labels, support_set, query_set, score, ranked, group_results,
                   scores_csv, csv_writes>>

\* lines 198-199
WriteScores ==
    /\ pc' = "done"
    /\ scores_csv' = [exists |-> TRUE, rows |-> scores.len]
    /\ csv_writes' = csv_writes + 1
    /\ UNCHANGED <<dataVars, modelVars, trainVars, embeddings, test_sequence, episode,
                   scores, selected_labels, support_set, query_set, score,
                   ranked, group_results>>

-----------------------------------------------------------------------------
(* Inputs *)

Day1 == <<"2","0","1","9","0","8","0","1">>
Day2 == <<"2","0","1","9","0","8","0","2">>
Day3 == <<"2","0","1","9","0","8","0","3">>
Days == {Day1, Day2, Day3}

Digits == <<"0","1","2","3","4","5","6","7","8","9">>

RECURSIVE Decimal(_)
Decimal(n) ==
    IF n < 10 THEN <<Digits[n + 1]>> ELSE Decimal(n \div 10) \o <<Digits[(n % 10) + 1]>>

\* image names: im_<day>_<tag>
ImageName(day, tag) == <<"i","m","_">> \o day \o <<"_">> \o Decimal(tag)

\* image names of the split specification: well formed ones, one whose day sits
\* one character late, one shorter than the day's last character
CsvRows ==
    {[image_name |-> ImageName(Day1, 0), label |-> "a"],
     [image_name |-> ImageName(Day2, 1), label |-> "b"],
     [image_name |-> ImageName(Day3, 2), label |-> "a"],
     [image_name |-> <<"i","m","g","_">> \o Day1, label |-> "b"],
     [image_name |-> <<"i","m","_","2","0","1","9">>, label |-> "a"]}

CsvFiles == UNION {[1..n -> CsvRows] : n \in 0..MaxRows}

SplitYamls ==
    [train_set_dates : SUBSET Days, val_set_dates : SUBSET Days,
     test_set_dates : SUBSET Days]

\* before line 45 nothing of the model, the training or the evaluation exists
InitRest ==
    /\ branch_depth = 0
    /\ branch_trainable = FALSE
    /\ layer_trainable = <<>>
    /\ head_trainable = FALSE
    /\ compiled = NotCompiled
    /\ epoch = 0
    /\ best = Inf
    /\ weights = Pretrained
    /\ ckpt_file = NoFile
    /\ logged = <<>>
    /\ loaded = <<>>
    /\ embeddings = <<>>
    /\ test_sequence = NoSequence
    /\ episode = 0
    /\ scores = [len |-> 0, last |-> NoRow]
    /\ selected_labels = EmptyBag
    /\ support_set = <<>>
    /\ query_set = <<>>
    /\ score = <<>>
    /\ ranked = <<>>
    /\ group_results = <<>>
    /\ scores_csv = [exists |-> FALSE, rows |-> 0]
    /\ csv_writes = 0

-----------------------------------------------------------------------------
(* The split on its own, over every bounded csv file and split file *)

InitSplit ==
    /\ pc = "init_data"
    /\ csv \in CsvFiles
    /\ split_yaml \in SplitYamls
    /\ all_annotations = <<>>
    /\ train_set = <<>>
    /\ val_set = <<>>
    /\ test_set = <<>>
    /\ InitRest

NextSplit == pc = "init_data" /\ InitData

SpecSplit == InitSplit /\ [][NextSplit]_vars

-----------------------------------------------------------------------------
(* The script, from its first line to its last *)

RECURSIVE TestRows(_, _)
\* rows of the test day, counts[i] of them with the i-th label of LabelOrder,
\* the labels interleaved
TestRows(counts, tag) ==
    IF \A i \in 1..Len(counts) : counts[i] = 0 THEN <<>>
    ELSE LET i == CHOOSE j \in 1..Len(counts) :
                      \A k \in 1..Len(counts) :
                          \/ counts[k] < counts[j]
                          \/ counts[k] = counts[j] /\ j <= k
         IN  <<[image_name |-> ImageName(Day3, tag), label |-> LabelOrder[i]]>>
             \o TestRows([counts EXCEPT ![i] = @ - 1], tag + 1)

\* a csv file with one row of the training day, one of the validation day, and
\* the rows of the test day around them
CsvFile(counts) ==
    <<[image_name |-> ImageName(Day1, 0), label |-> "a"]>>
    \o SubSeq(TestRows(counts, 2), 1, 1)
    \o <<[image_name |-> ImageName(Day2, 1), label |-> "b"]>>
    \o Tail(TestRows(counts, 2))

SplitByDay ==
    [train_set_dates |-> {Day1}, val_set_dates |-> {Day2}, test_set_dates |-> {Day3}]

Init ==
    /\ pc = "init_data"
    /\ csv = CsvFile(<<k_shot + 1, k_shot - 1>>)
    /\ split_yaml = SplitByDay
    /\ all_annotations = <<>>
    /\ train_set = <<>>
    /\ val_set = <<>>
    /\ test_set = <<>>
    /\ InitRest

Next ==
    \/ pc = "init_data" /\ InitData
    \/ pc = "init_model" /\ InitModel
    \/ pc = "phase1_compile" /\ Phase1Compile
    \/ pc = "phase1_fit" /\ Phase1Fit
    \/ pc = "phase1_load" /\ Phase1Load
    \/ pc = "phase2_unfreeze" /\ Phase2Unfreeze
    \/ pc = "phase2_freeze" /\ Phase2Freeze
    \/ pc = "phase2_compile" /\ Phase2Compile
    \/ pc = "phase2_fit" /\ Phase2Fit
    \/ pc = "phase2_load" /\ Phase2Load
    \/ pc = "eval_init" /\ EvalInit
    \/ pc = "choice" /\ Choice
    \/ pc = "support" /\ Support
    \/ pc = "query" /\ Query
    \/ pc = "pairs" /\ Pairs
    \/ pc = "predict" /\ Predict
    \/ pc = "apply" /\ Apply
    \/ pc = "append" /\ AppendScores
    \/ pc = "write" /\ WriteScores

Spec == Init /\ [][Next]_vars

-----------------------------------------------------------------------------
(* The sampling of one episode (lines 160-180), over test sets whose labels   *)
(* have from k_shot - 1 to MaxGroup rows                                      *)

EpisodeFiles ==
    {CsvFile(<<na, nb>>) : na \in (k_shot - 1)..MaxGroup,
                           nb \in {0} \cup (k_shot - 1)..MaxGroup}

\* the state line 158 leaves when both phases have trained and reloaded weights
\* of validation loss 1 and the branch model has MaxDepth layers
AfterTraining(file) ==
    /\ csv = file
    /\ split_yaml = SplitByDay
    /\ all_annotations = AllAnnotations(file)
    /\ train_set = TrainSet(AllAnnotations(file), SplitByDay)
    /\ val_set = ValSet(AllAnnotations(file), SplitByDay)
    /\ test_set = TestSet(AllAnnotations(file), SplitByDay)
    /\ branch_depth = MaxDepth
    /\ branch_trainable = TRUE
    /\ layer_trainable = FreezeLayers([i \in 1..MaxDepth |-> TRUE], FrozenCount(MaxDepth))
    /\ head_trainable = TRUE
    /\ compiled = Compile(TRUE, FreezeLayers([i \in 1..MaxDepth |-> TRUE],
                                             FrozenCount(MaxDepth)), TRUE, "1e-5")
    /\ epoch = epochs_2
    /\ best = Num(1)
    /\ weights = [val_loss |-> Num(1)]
    /\ ckpt_file = [val_loss |-> Num(1)]
    /\ logged = [i \in 1..epochs_2 |-> i - 1]
    /\ loaded = <<[val_loss |-> Num(1)], [val_loss |-> Num(1)]>>
    /\ embeddings = PredictGenerator(DeterministicSequence(
                        TestSet(AllAnnotations(file), SplitByDay), test_batch_size))
    /\ episode = 0
    /\ scores = [len |-> 0, last |-> NoRow]
    /\ scores_csv = [exists |-> FALSE, rows |-> 0]
    /\ csv_writes = 0

InitSampling ==
    /\ pc = "choice"
    /\ \E file \in EpisodeFiles : AfterTraining(file)
    /\ test_sequence = [kind |-> "deterministic",
                        batches |-> DeterministicSequence(test_set, test_batch_size)]
    /\ selected_labels = EmptyBag
    /\ support_set = <<>>
    /\ query_set = <<>>
    /\ score = <<>>
    /\ ranked = <<>>
    /\ group_results = <<>>

NextSampling ==
    \/ pc = "choice" /\ Choice
    \/ pc = "support" /\ Support
    \/ pc = "query" /\ Query
    \/ pc = "pairs" /\ Pairs

SpecSampling == InitSampling /\ [][NextSampling]_vars

-----------------------------------------------------------------------------
(* The scoring of one episode (lines 181-196), over every score of every pair *)
(* of episodes of at most MaxQueries queries                                  *)

\* the first k rows of every label of df
FirstRows(df, k) ==
    LET keep(row) == Cardinality({i \in 1..Len(df) :
                         df[i].label = row.label /\ df[i].index < row.index}) < k
    IN  SelectSeq(df, keep)

\* the state before line 181 of an episode that drew every label of the test
\* set and sampled the first k_shot rows of each
InitScore ==
    /\ pc = "predict"
    /\ \E file \in EpisodeFiles : AfterTraining(file)
    /\ selected_labels \in ChoiceWithReplacement(Unique(test_set), n_way)
    /\ BagToSet(selected_labels) = Unique(test_set)
    /\ \A l \in Unique(test_set) : l = "a" \/ selected_labels[l] = 1
    /\ \E outcome \in SupportSets(test_set, selected_labels, k_shot) :
        /\ ~outcome.raised
        /\ support_set = outcome.rows
    /\ Range(Index(support_set)) = Range(Index(FirstRows(test_set, k_shot)))
    /\ query_set = QuerySet(test_set, selected_labels, support_set)
    /\ Len(query_set) <= MaxQueries
    /\ test_sequence = ProductSequence(Take(embeddings, Index(support_set)),
                                       Take(embeddings, Index(query_set)),
                                       LabelValues(support_set), LabelValues(query_set))
    /\ score = <<>>
    /\ ranked = <<>>
    /\ group_results = <<>>

NextScore ==
    \/ pc = "predict" /\ Predict
    \/ pc = "apply" /\ Apply
    \/ pc = "append" /\ AppendScores

SpecScore == InitScore /\ [][NextScore]_vars

-----------------------------------------------------------------------------
(* The sampling of one episode over a test set of n_way labels with k_shot    *)
(* rows each                                                                  *)

InitNWay ==
    /\ pc = "choice"
    /\ AfterTraining(CsvFile([i \in 1..n_way |-> k_shot]))
    /\ test_sequence = [kind |-> "deterministic",
                        batches |-> DeterministicSequence(test_set, test_batch_size)]
    /\ selected_labels = EmptyBag
    /\ support_set = <<>>
    /\ query_set = <<>>
    /\ score = <<>>
    /\ ranked = <<>>
    /\ group_results = <<>>

NextNWay ==
    \/ pc = "choice" /\ Choice
    \/ pc = "support" /\ Support

SpecNWay == InitNWay /\ [][NextNWay]_vars

-----------------------------------------------------------------------------
(* Properties *)

Last(seq) == seq[Len(seq)]

\* C1: every episode's support set holds exactly n_way distinct labels of the
\* test set and exactly k_shot rows of each, n_way * k_shot rows in all.
C1_NWayKShot ==
    pc = "query" =>
        /\ Cardinality(Unique(support_set)) = n_way
        /\ Unique(support_set) \subseteq Unique(test_set)
        /\ \A l \in Unique(support_set) : Len(Group(support_set, l)) = k_shot
        /\ Len(support_set) = n_way * k_shot

\* characters 3 to 10 of s, counted from 0
Chars3To10(s) == [j \in 1..Cardinality({k \in 3..10 : k < Len(s)}) |-> s[j + 3]]

\* row i of the csv file is a row of df: by its index label where df keeps the
\* labels of the file, by its content where df was re-indexed
HasRow(df, i, by_label) ==
    \E r \in 1..Len(df) :
        /\ df[r].image_name = images_dir \o csv[i].image_name
        /\ df[r].label = csv[i].label
        /\ by_label => df[r].index = i - 1

RowsOfDates(dates) == {i \in 1..Len(csv) : Chars3To10(csv[i].image_name) \in dates}

DisjointDates ==
    /\ split_yaml.train_set_dates \cap split_yaml.val_set_dates = {}
    /\ split_yaml.train_set_dates \cap split_yaml.test_set_dates = {}
    /\ split_yaml.val_set_dates \cap split_yaml.test_set_dates = {}

\* C2: a row is in train_set, val_set or test_set exactly when characters 3 to
\* 10 of its image_name in the csv file are one of train_set_dates,
\* val_set_dates or test_set_dates; when the three lists are pairwise disjoint
\* no row is in two of the partitions.
C2_SplitByDate ==
    pc = "init_model" =>
        /\ \A i \in 1..Len(csv) :
            /\ HasRow(train_set, i, TRUE) <=> i \in RowsOfDates(split_yaml.train_set_dates)
            /\ HasRow(val_set, i, TRUE) <=> i \in RowsOfDates(split_yaml.val_set_dates)
            /\ HasRow(test_set, i, FALSE) <=> i \in RowsOfDates(split_yaml.test_set_dates)
        /\ Len(train_set) = Cardinality(RowsOfDates(split_yaml.train_set_dates))
        /\ Len(val_set) = Cardinality(RowsOfDates(split_yaml.val_set_dates))
        /\ Len(test_set) = Cardinality(RowsOfDates(split_yaml.test_set_dates))
        /\ DisjointDates =>
            /\ Len(train_set) + Len(val_set) + Len(test_set) <= Len(csv)
            /\ \A i \in 1..Len(csv) :
                /\ ~(HasRow(train_set, i, TRUE) /\ HasRow(val_set, i, TRUE))
                /\ ~(HasRow(train_set, i, TRUE) /\ HasRow(test_set, i, FALSE))
                /\ ~(HasRow(val_set, i, TRUE) /\ HasRow(test_set, i, FALSE))

C2_Witness ==
    /\ pc = "init_model"
    /\ DisjointDates
    /\ train_set # <<>>
    /\ val_set # <<>>
    /\ test_set # <<>>
    /\ Len(train_set) + Len(val_set) + Len(test_set) = Len(csv)

\* the largest integer not above 0.6 * depth
Floor06(depth) == CHOOSE n \in 0..depth : 5 * n <= 3 * depth /\ 3 * depth < 5 * (n + 1)

\* C3: throughout phase one no layer of the branch model is trainable and the
\* head model is; throughout phase two the branch layers below
\* floor(0.6 * branch_depth) are not trainable, the layers from that bound on
\* are, and the head model still is.  The same holds of what compile fixed.
C3_Freezing ==
    /\ pc \in {"phase1_fit", "phase1_load"} =>
        /\ \A i \in 0..(branch_depth - 1) : ~(branch_trainable /\ layer_trainable[i + 1])
        /\ compiled.branch_layers = {}
        /\ head_trainable
        /\ compiled.head
    /\ pc \in {"phase2_fit", "phase2_load"} =>
        /\ \A i \in 0..(branch_depth - 1) :
            (branch_trainable /\ layer_trainable[i + 1]) <=> i >= Floor06(branch_depth)
        /\ compiled.branch_layers = {i \in 0..(branch_depth - 1) : i >= Floor06(branch_depth)}
        /\ head_trainable
        /\ compiled.head

C3_Witness ==
    /\ pc = "phase2_fit"
    /\ epoch > initial_epoch_2
    /\ branch_depth = 5
    /\ compiled.branch_layers = {3, 4}

\* the stages of the script, in the order the claim names them
Stage(p) ==
    CASE p = "init_data" -> 1
      [] p = "init_model" -> 2
      [] p \in {"phase1_compile", "phase1_fit"} -> 3
      [] p = "phase1_load" -> 4
      [] p \in {"phase2_unfreeze", "phase2_freeze", "phase2_compile", "phase2_fit"} -> 5
      [] p = "phase2_load" -> 6
      [] p = "eval_init" -> 7
      [] p \in {"choice", "support", "query", "pairs", "predict", "apply", "append"} -> 8
      [] p = "write" -> 9
      [] p = "done" -> 10
      [] OTHER -> 0

C4_Order ==
    \/ pc' = "aborted"
    \/ Stage(pc') = Stage(pc)
    \/ Stage(pc') = Stage(pc) + 1

C4_Written ==
    /\ csv_writes <= 1
    /\ scores_csv.exists <=> csv_writes = 1
    /\ scores_csv.exists <=> pc = "done"
    /\ scores_csv.exists =>
        /\ scores_csv.rows = n_episode
        /\ scores.len = n_episode
        /\ episode = n_episode
    /\ Stage(pc) = 8 => scores.len = episode /\ episode < n_episode
    /\ Stage(pc) >= 5 => Len(loaded) >= 1 /\ Len(logged) >= epochs_1
    /\ Stage(pc) >= 7 => Len(loaded) = 2 /\ Len(logged) = epochs_2
    /\ Stage(pc) >= 8 => Len(embeddings) = Len(test_set)

\* C4: the stages run once, in the order data split, model build, phase-one
\* training, reload, phase-two training, reload, embedding, the n_episode
\* episodes, write; scores.csv is written once, after all n_episode episodes,
\* with one row per episode.
C4_LinearPipeline == [][C4_Order]_vars /\ []C4_Written

C4_Witness ==
    /\ pc = "done"
    /\ scores_csv.rows = n_episode
    /\ csv_writes = 1

\* the pairs of query q (from 0) with their scores
PairsOf(q) == QueryGroup(AssignScore(test_sequence.pairs_indexes, score), q)

\* r holds the rows of group, each once, no row before a row of higher score
IsRanking(r, group) ==
    /\ Len(r) = Len(group)
    /\ Range(r) = Range(group)
    /\ \A i, j \in 1..Len(r) : i < j => r[i].score >= r[j].score

\* the ranks of r that hold a matching support item
Matching(r) == {i \in 1..Len(r) : r[i].target}

RECURSIVE SumOfPrecisions(_, _)
\* the sum over the ranks of M of the fraction of matching items among the
\* pairs ranked at or above that rank
SumOfPrecisions(r, M) ==
    IF M = {} THEN Rat(0, 1)
    ELSE LET i == CHOOSE j \in M : TRUE
         IN  RAdd(Rat(Cardinality({j \in Matching(r) : j <= i}), i),
                  SumOfPrecisions(r, M \ {i}))

QueryAveragePrecision(r) == RDiv(SumOfPrecisions(r, Matching(r)), Cardinality(Matching(r)))

\* an episode has been scored: its row is the last of scores
Scored == pc = "choice" /\ scores.len > 0 /\ group_results # <<>>

\* C5: the average_precision of an episode is the mean over its queries of the
\* query's average precision: on the query's pairs ranked by descending score,
\* the mean over the ranks holding a matching support item of the fraction of
\* matching items among the pairs ranked at or above that rank.
C5_AveragePrecision ==
    /\ group_results # <<>> =>
        /\ IsRanking(ranked, PairsOf(Len(group_results) - 1))
        /\ Last(group_results).average_precision = QueryAveragePrecision(ranked)
    /\ Scored =>
        scores.last.average_precision =
            RDiv(RSum([q \in 1..Len(group_results) |-> group_results[q].average_precision]),
                 Len(group_results))

C5_Witness ==
    /\ Scored
    /\ Len(group_results) = 2
    /\ group_results[1].average_precision # group_results[2].average_precision
    /\ Last(group_results).average_precision \notin {Rat(0, 1), Rat(1, 1)}
    /\ \E i, j \in 1..Len(ranked) : i < j /\ ~ranked[i].target /\ ranked[j].target

\* C6: the good_prediction of an episode is the fraction of its queries whose
\* highest-scoring support item has the label of the query; every query has
\* exactly k_shot matching support items among its pairs.
C6_Top1Accuracy ==
    /\ group_results # <<>> =>
        LET q == Len(group_results) - 1
            top == ranked[1]
            hit == support_set[top.support_index + 1].label = query_set[q + 1].label
        IN  /\ top \in Range(PairsOf(q))
            /\ \A i \in 1..Len(PairsOf(q)) : PairsOf(q)[i].score <= top.score
            /\ Last(group_results).good_prediction = Rat(BoolToInt(hit), 1)
    /\ pc \in {"predict", "apply", "append"} =>
        /\ Len(test_sequence.pairs_indexes) = Len(query_set) * Len(support_set)
        /\ \A q \in 0..(Len(query_set) - 1) :
            Cardinality({s \in 0..(Len(support_set) - 1) :
                \E p \in 1..Len(test_sequence.pairs_indexes) :
                    /\ test_sequence.pairs_indexes[p].query_index = q
                    /\ test_sequence.pairs_indexes[p].support_index = s
                    /\ test_sequence.pairs_indexes[p].target}) = k_shot
    /\ Scored =>
        scores.last.good_prediction =
            Rat(Cardinality({q \in 1..Len(group_results) :
                                group_results[q].good_prediction = Rat(1, 1)}),
                Len(group_results))

C6_Witness ==
    /\ Scored
    /\ Len(group_results) = 2
    /\ scores.last.good_prediction = Rat(1, 2)

\* the index labels of the test rows whose label was selected
SelectedRows ==
    {test_set[i].index : i \in {j \in 1..Len(test_set) :
                                   test_set[j].label \in BagToSet(selected_labels)}}

\* C7: in every episode no test row is both a support and a query item, every
\* row of a selected label is in one of the two sets, and no row of an
\* unselected label is in either.
C7_SupportQueryPartition ==
    pc \in {"pairs", "predict"} =>
        /\ Range(Index(support_set)) \cap Range(Index(query_set)) = {}
        /\ Range(Index(support_set)) \cup Range(Index(query_set)) = SelectedRows
        /\ Range(support_set) \cup Range(query_set) \subseteq Range(test_set)
        /\ Cardinality(Range(Index(support_set))) = Len(support_set)
        /\ Cardinality(Range(Index(query_set))) = Len(query_set)

C7_Witness ==
    /\ pc = "predict"
    /\ query_set # <<>>
    /\ Cardinality(Unique(support_set)) = 1
    /\ Cardinality(Unique(test_set)) = 2

\* the epochs first .. last - 1, in order
EpochRange(first, last) == [i \in 1..(last - first) |-> first + i - 1]

\* C8: phase one runs epochs 0 to 19 and phase two epochs 20 to 69, none twice
\* and none skipped; phase two starts after phase one has ended and the best
\* checkpoint has been reloaded; the weights reloaded after phase two have a
\* validation loss no higher than the weights reloaded after phase one.
C8_PhasesAndCheckpoint ==
    /\ logged = EpochRange(0, Len(logged))
    /\ pc = "phase1_fit" => Len(logged) = epoch /\ epoch < 20 /\ loaded = <<>>
    /\ pc = "phase1_load" => logged = EpochRange(0, 20) /\ loaded = <<>>
    /\ pc \in {"phase2_unfreeze", "phase2_freeze", "phase2_compile"} =>
        logged = EpochRange(0, 20) /\ Len(loaded) = 1
    /\ pc = "phase2_fit" =>
        Len(logged) = epoch /\ 20 <= epoch /\ epoch < 70 /\ Len(loaded) = 1
    /\ pc = "phase2_load" => logged = EpochRange(0, 70) /\ Len(loaded) = 1
    /\ Stage(pc) >= 7 => logged = EpochRange(0, 70) /\ Len(loaded) = 2
    /\ Len(loaded) >= 1 => loaded[1].val_loss \in {Num(n) : n \in 1..MaxLoss}
    /\ Len(loaded) = 2 =>
        /\ loaded[2].val_loss \in {Num(n) : n \in 1..MaxLoss}
        /\ loaded[2].val_loss[2] <= loaded[1].val_loss[2]
        /\ weights = loaded[2]

C8_Witness ==
    /\ pc = "eval_init"
    /\ Len(loaded) = 2
    /\ loaded[2].val_loss[2] < loaded[1].val_loss[2]

\* row is the row of test_set at the position its index label names, where
\* embeddings holds the embedding computed from its image
OwnPosition(row) ==
    /\ row.index + 1 \in 1..Len(test_set)
    /\ test_set[row.index + 1] = row
    /\ row.index + 1 \in 1..Len(embeddings)
    /\ embeddings[row.index + 1] = Embedding(row.image_name)

\* C9: in every episode the index labels kept by support_set and query_set are
\* the positions of their rows in embeddings, and the embedding used for each
\* support or query item is the one computed for that row.
C9_OwnEmbeddings ==
    /\ pc \in {"query", "pairs", "predict", "apply", "append"} =>
        \A i \in 1..Len(support_set) : OwnPosition(support_set[i])
    /\ pc \in {"pairs", "predict", "apply", "append"} =>
        \A i \in 1..Len(query_set) : OwnPosition(query_set[i])
    /\ pc \in {"predict", "apply", "append"} =>
        /\ Len(test_sequence.support_images_array) = Len(support_set)
        /\ Len(test_sequence.query_images_array) = Len(query_set)
        /\ \A i \in 1..Len(support_set) :
            test_sequence.support_images_array[i] = Embedding(support_set[i].image_name)
        /\ \A i \in 1..Len(query_set) :
            test_sequence.query_images_array[i] = Embedding(query_set[i].image_name)

C9_Witness ==
    /\ pc = "predict"
    /\ episode > 0
    /\ query_set # <<>>
    /\ support_set # <<>>
    /\ \E i \in 1..Len(all_annotations) :
        /\ all_annotations[i].image_name = query_set[1].image_name
        /\ all_annotations[i].index # query_set[1].index

\* a selected label has fewer than k_shot rows in the test set
ShortLabel == \E l \in BagToSet(selected_labels) : Len(Group(test_set, l)) < k_shot

C10_Step ==
    /\ (pc = "support" /\ ShortLabel) =>
        (pc' = "aborted" /\ scores_csv' = scores_csv /\ csv_writes' = csv_writes)
    /\ pc # "aborted"

C10_State ==
    /\ pc = "aborted" => ~scores_csv.exists /\ csv_writes = 0
    /\ pc \in {"query", "pairs", "predict", "apply", "append"} => ~ShortLabel
    /\ scores_csv.exists => ~ShortLabel /\ scores.len = n_episode

\* C10: when an episode selects a label with fewer than k_shot test rows,
\* sampling fails, the run stops at that episode and scores.csv is never
\* written; scores.csv exists only when no episode selected such a label.
C10_AbortOnShortLabel == [][C10_Step]_vars /\ []C10_State

C10_Witness ==
    /\ pc = "aborted"
    /\ ShortLabel
    /\ scores.len > 0
    /\ ~scores_csv.exists

====
